---- MODULE Spec2Model ----
(***************************************************************************)
(* Model of the notebook camel-aci.ipynb: the code cells run top to bottom *)
(* as one flow of control.  The external collaborators (MCPToolkit, the    *)
(* model factory, ChatAgent) are mocks: they record the calls they get and *)
(* reply, or raise, nondeterministically.  An exception raised in a cell   *)
(* is not caught anywhere, so it stops the run.                            *)
(***************************************************************************)
EXTENDS Integers, Sequences, FiniteSets

\* ---------------------------------------------------------------- bounds
MaxTasks == 3

\* Prompts a task tuple is drawn from, and texts a mock agent may answer.
Prompts == {"find all cars in image X", "find all trees in image Y"}
Contents == {"1 car found", "no object found"}

\* ------------------------------------------------------- the environment
\* os.getenv returns None for a name the process environment does not hold.
None == "None"
SecretValues == {"s1"}

\* The four names the notebook asks the reader to set up.
SecretNames == {"ACI_API_KEY", "LINKED_ACCOUNT_OWNER_ID", "GOOGLE_API_KEY", "REPLICATE_API_TOKEN"}

\* The literal the configuration cell puts after --linked-account-owner-id.
LinkedAccountLiteral == "parthshr370"

VARIABLES
  environ,         \* process environment: SecretNames -> value or None
  tasks,           \* the task tuple
  pc,              \* position of the flow of control
  mcp_config,      \* the dict built by the configuration cell
  config_dict,     \* what the MCPToolkit constructor received
  api_key,         \* what ModelFactory.create received as api_key
  getenvCalls,     \* names passed to os.getenv so far
  conn,            \* state of the tool connection held by the toolkit
  connectCalls,    \* number of mcp_toolkit.connect() calls started
  disconnectCalls, \* number of mcp_toolkit.disconnect() calls started
  idx,             \* items the for loop has taken from tasks
  task,            \* the loop variable
  response,        \* the last value returned by agent.astep
  astepCalls,      \* arguments of the agent.astep calls, in call order
  returned,        \* contents of the responses agent.astep returned, in order
  outstanding,     \* agent.astep calls started and not yet finished
  stdout,          \* lines printed
  failedAt         \* the call whose exception ended the run, or "none"

vars == <<environ, tasks, pc, mcp_config, config_dict, api_key, getenvCalls,
          conn, connectCalls, disconnectCalls, idx, task, response,
          astepCalls, returned, outstanding, stdout, failedAt>>

envVars == <<environ, tasks>>
cfgVars == <<mcp_config, config_dict, api_key, getenvCalls>>
connVars == <<conn, connectCalls, disconnectCalls>>
loopVars == <<idx, task, response, astepCalls, returned, outstanding, stdout>>

\* ------------------------------------------------------------- helpers
SeqsUpTo(S, n) == UNION {[1..k -> S] : k \in 0..n}

EmptyEnv == [n \in {} |-> None]

EmptyConfig ==
  [mcpServers |-> [aci_apps |-> [command |-> "", args |-> <<>>, env |-> EmptyEnv]]]

NoResponse == [msg |-> [content |-> None]]

\* os.getenv(name) with a default instead of None (not what the code does).
getenv_default(name) == IF environ[name] = None THEN "" ELSE environ[name]

\* os.getenv(name): the value in the process environment, None when absent.
getenv(name) == environ[name]

\* The dict literal of the configuration cell.
McpConfigLiteral ==
  [mcpServers |->
    [aci_apps |->
      [command |-> "aci-mcp",
       args |-> <<"apps-server", "--apps=REPLICATE",
                  "--linked-account-owner-id", LinkedAccountLiteral>>,
       env |-> [n \in {"ACI_API_KEY"} |-> getenv("ACI_API_KEY")]]]]

\* ------------------------------------------------------------------ Init
Init ==
  /\ environ \in [SecretNames -> SecretValues \cup {None}]
  /\ tasks \in SeqsUpTo(Prompts, MaxTasks)
  /\ pc = "config"
  /\ mcp_config = EmptyConfig
  /\ config_dict = EmptyConfig
  /\ api_key = None
  /\ getenvCalls = {}
  /\ conn = "none"
  /\ connectCalls = 0
  /\ disconnectCalls = 0
  /\ idx = 0
  /\ task = None
  /\ response = NoResponse
  /\ astepCalls = <<>>
  /\ returned = <<>>
  /\ outstanding = 0
  /\ stdout = <<>>
  /\ failedAt = "none"

\* ------------------------------------------------- configuration cell
\* mcp_config = {...}; mcp_toolkit = MCPToolkit(config_dict=mcp_config)
BuildConfig ==
  /\ pc = "config"
  /\ mcp_config' = McpConfigLiteral
  /\ config_dict' = McpConfigLiteral
  /\ getenvCalls' = getenvCalls \cup {"ACI_API_KEY"}
  /\ conn' = "unconnected"
  /\ pc' = "connect"
  /\ UNCHANGED <<envVars, api_key, connectCalls, disconnectCalls, loopVars, failedAt>>

\* connect() started but not awaited: the flow goes on at once.
ConnectCall_noawait ==
  /\ pc = "connect"
  /\ connectCalls' = connectCalls + 1
  /\ conn' = "connecting"
  /\ pc' = "agent"
  /\ UNCHANGED <<envVars, cfgVars, disconnectCalls, loopVars, failedAt>>

\* await mcp_toolkit.connect(): the call starts and the flow suspends.
ConnectCall ==
  /\ pc = "connect"
  /\ connectCalls' = connectCalls + 1
  /\ conn' = "connecting"
  /\ pc' = "awaiting_connect"
  /\ UNCHANGED <<envVars, cfgVars, disconnectCalls, loopVars, failedAt>>

ConnectReturn ==
  /\ pc = "awaiting_connect"
  /\ conn' = "open"
  /\ pc' = "agent"
  /\ UNCHANGED <<envVars, cfgVars, connectCalls, disconnectCalls, loopVars, failedAt>>

ConnectRaise ==
  /\ pc = "awaiting_connect"
  /\ conn' = "unconnected"
  /\ failedAt' = "connect"
  /\ pc' = "failed"
  /\ UNCHANGED <<envVars, cfgVars, connectCalls, disconnectCalls, loopVars>>

\* ------------------------------------------------------------ agent cell
\* tools = mcp_toolkit.get_tools(); model = ModelFactory.create(...,
\* api_key=os.getenv("GOOGLE_API_KEY"), ...); agent = ChatAgent(...)
AgentCell ==
  /\ pc = "agent"
  /\ api_key' = getenv("GOOGLE_API_KEY")
  /\ getenvCalls' = getenvCalls \cup {"GOOGLE_API_KEY"}
  /\ pc' = "loop"
  /\ UNCHANGED <<envVars, mcp_config, config_dict, connVars, loopVars, failedAt>>

\* A collaborator of the agent cell raises (for instance on an absent key).
AgentCellRaise ==
  /\ pc = "agent"
  /\ api_key' = getenv("GOOGLE_API_KEY")
  /\ getenvCalls' = getenvCalls \cup {"GOOGLE_API_KEY"}
  /\ failedAt' = "agent"
  /\ pc' = "failed"
  /\ UNCHANGED <<envVars, mcp_config, config_dict, connVars, loopVars>>

\* ------------------------------------------------------------- task cell
\* A loop bound that is one short: the last task is never taken.
ForNext_offbyone ==
  /\ pc = "loop"
  /\ IF idx < Len(tasks) - 1
       THEN /\ idx' = idx + 1
            /\ task' = tasks[idx + 1]
            /\ pc' = "astep"
       ELSE /\ pc' = "disconnect"
            /\ UNCHANGED <<idx, task>>
  /\ UNCHANGED <<envVars, cfgVars, connVars, response, astepCalls, returned,
                 outstanding, stdout, failedAt>>

\* for task in tasks: take the next item, or leave the loop when the tuple
\* is used up; the cell then ends and the teardown cell is next.
ForNext ==
  /\ pc = "loop"
  /\ IF idx < Len(tasks)
       THEN /\ idx' = idx + 1
            /\ task' = tasks[idx + 1]
            /\ pc' = "astep"
       ELSE /\ pc' = "disconnect"
            /\ UNCHANGED <<idx, task>>
  /\ UNCHANGED <<envVars, cfgVars, connVars, response, astepCalls, returned,
                 outstanding, stdout, failedAt>>

\* agent.astep(task) started as a background task: the loop does not wait.
AstepCall_nowait ==
  /\ pc = "astep"
  /\ astepCalls' = Append(astepCalls, task)
  /\ outstanding' = outstanding + 1
  /\ pc' = "loop"
  /\ UNCHANGED <<envVars, cfgVars, connVars, idx, task, response, returned,
                 stdout, failedAt>>

\* await agent.astep(task): the call starts and the flow suspends.
AstepCall ==
  /\ pc = "astep"
  /\ astepCalls' = Append(astepCalls, task)
  /\ outstanding' = outstanding + 1
  /\ pc' = "awaiting_astep"
  /\ UNCHANGED <<envVars, cfgVars, connVars, idx, task, response, returned,
                 stdout, failedAt>>

\* response = <the value agent.astep returned>
AstepReturn ==
  /\ pc = "awaiting_astep"
  /\ \E c \in Contents :
       /\ response' = [msg |-> [content |-> c]]
       /\ returned' = Append(returned, c)
  /\ outstanding' = outstanding - 1
  /\ pc' = "print"
  /\ UNCHANGED <<envVars, cfgVars, connVars, idx, task, astepCalls, stdout, failedAt>>

\* The exception of agent.astep is caught and the loop goes on.
AstepRaise_swallow ==
  /\ pc = "awaiting_astep"
  /\ outstanding' = outstanding - 1
  /\ failedAt' = "astep"
  /\ pc' = "loop"
  /\ UNCHANGED <<envVars, cfgVars, connVars, idx, task, response, astepCalls,
                 returned, stdout>>

\* agent.astep raises: nothing catches it, the run ends here.
AstepRaise ==
  /\ pc = "awaiting_astep"
  /\ outstanding' = outstanding - 1
  /\ failedAt' = "astep"
  /\ pc' = "failed"
  /\ UNCHANGED <<envVars, cfgVars, connVars, idx, task, response, astepCalls,
                 returned, stdout>>

\* print(task) in place of the response text.
PrintResponse_task ==
  /\ pc = "print"
  /\ stdout' = Append(stdout, task)
  /\ pc' = "loop"
  /\ UNCHANGED <<envVars, cfgVars, connVars, idx, task, response, astepCalls,
                 returned, outstanding, failedAt>>

\* print followed by a break out of the loop.
PrintResponse_break ==
  /\ pc = "print"
  /\ stdout' = Append(stdout, response.msg.content)
  /\ pc' = "disconnect"
  /\ UNCHANGED <<envVars, cfgVars, connVars, idx, task, response, astepCalls,
                 returned, outstanding, failedAt>>

\* print(response.msg.content)
PrintResponse ==
  /\ pc = "print"
  /\ stdout' = Append(stdout, response.msg.content)
  /\ pc' = "loop"
  /\ UNCHANGED <<envVars, cfgVars, connVars, idx, task, response, astepCalls,
                 returned, outstanding, failedAt>>

\* --------------------------------------------------------- teardown cell
\* await mcp_toolkit.disconnect(): the call starts and the flow suspends.
DisconnectCall ==
  /\ pc = "disconnect"
  /\ disconnectCalls' = disconnectCalls + 1
  /\ conn' = "disconnecting"
  /\ pc' = "awaiting_disconnect"
  /\ UNCHANGED <<envVars, cfgVars, connectCalls, loopVars, failedAt>>

\* The teardown cell is run a second time.
DisconnectReturn_again ==
  /\ pc = "awaiting_disconnect"
  /\ conn' = "closed"
  /\ pc' = IF disconnectCalls < 2 THEN "disconnect" ELSE "done"
  /\ UNCHANGED <<envVars, cfgVars, connectCalls, disconnectCalls, loopVars, failedAt>>

\* disconnect() returns and leaves the connection as it was.
DisconnectReturn_noclose ==
  /\ pc = "awaiting_disconnect"
  /\ conn' = "open"
  /\ pc' = "done"
  /\ UNCHANGED <<envVars, cfgVars, connectCalls, disconnectCalls, loopVars, failedAt>>

DisconnectReturn ==
  /\ pc = "awaiting_disconnect"
  /\ conn' = "closed"
  /\ pc' = "done"
  /\ UNCHANGED <<envVars, cfgVars, connectCalls, disconnectCalls, loopVars, failedAt>>

DisconnectRaise ==
  /\ pc = "awaiting_disconnect"
  /\ failedAt' = "disconnect"
  /\ pc' = "failed"
  /\ UNCHANGED <<envVars, cfgVars, connVars, loopVars>>

\* ------------------------------------------------------- specifications
Next ==
  \/ BuildConfig
  \/ ConnectCall
  \/ ConnectReturn
  \/ ConnectRaise
  \/ AgentCell
  \/ AgentCellRaise
  \/ ForNext
  \/ AstepCall
  \/ AstepReturn
  \/ AstepRaise
  \/ PrintResponse
  \/ DisconnectCall
  \/ DisconnectReturn
  \/ DisconnectRaise

Spec == Init /\ [][Next]_vars

\* The single flow of control is always run by the event loop, and every
\* awaited call eventually replies (by returning or by raising).
LiveSpec == Init /\ [][Next]_vars /\ WF_vars(Next)

TypeOK ==
  /\ environ \in [SecretNames -> SecretValues \cup {None}]
  /\ tasks \in SeqsUpTo(Prompts, MaxTasks)
  /\ pc \in {"config", "connect", "awaiting_connect", "agent", "loop", "astep",
             "awaiting_astep", "print", "disconnect", "awaiting_disconnect",
             "done", "failed"}
  /\ conn \in {"none", "unconnected", "connecting", "open", "disconnecting", "closed"}
  /\ idx \in 0..Len(tasks)
  /\ outstanding \in 0..1
  /\ failedAt \in {"none", "connect", "agent", "astep", "disconnect"}

\* ------------------------------------------------------------ properties
ServerEntry == mcp_config.mcpServers.aci_apps

\* C1: in a run where no call fails, agent.astep is invoked once per task,
\* the i-th call carrying the i-th task: at every moment the calls made are
\* the first tasks of the tuple in order, and at the end they are all of it.
C1_OncePerTaskInOrder ==
  /\ Len(astepCalls) <= Len(tasks)
  /\ astepCalls = SubSeq(tasks, 1, Len(astepCalls))
  /\ pc = "done" => astepCalls = tasks

C1_Witness ==
  /\ pc = "done"
  /\ Len(tasks) = 2
  /\ tasks[1] # tasks[2]
  /\ astepCalls = tasks

\* C2: an agent invocation is started, and stays outstanding, only while
\* the connection is open: connect() has returned and disconnect() has not
\* been started.
C2_InvokeOnlyWhileOpen ==
  [][/\ astepCalls' # astepCalls =>
          conn = "open" /\ connectCalls = 1 /\ disconnectCalls = 0
     /\ outstanding' > 0 =>
          conn' = "open" /\ connectCalls' = 1 /\ disconnectCalls' = 0]_vars

C2_Witness ==
  /\ outstanding = 1
  /\ conn = "open"
  /\ Len(astepCalls) = Len(tasks)
  /\ Len(tasks) >= 1

\* C3: disconnect() is invoked at most once, only after every task has been
\* invoked, has returned and has been printed, and after connect(); a run
\* that completes has invoked it exactly once (the empty tuple included).
C3_TeardownOnceAfterAll ==
  /\ disconnectCalls <= 1
  /\ disconnectCalls = 1 =>
       /\ connectCalls = 1
       /\ idx = Len(tasks)
       /\ astepCalls = tasks
       /\ Len(returned) = Len(tasks)
       /\ stdout = returned
       /\ outstanding = 0
  /\ pc = "done" => disconnectCalls = 1

C3_Witness ==
  /\ pc = "done"
  /\ disconnectCalls = 1
  /\ Len(tasks) >= 2
  /\ Len(stdout) = Len(tasks)

\* C4: when agent.astep raises for the k-th task the run is over: the calls
\* made are exactly the first k tasks (no later task, no retry), only the
\* k-1 earlier responses were printed, disconnect() was never called and the
\* connection is still open.
C4_AstepFailureEndsRun ==
  failedAt = "astep" =>
    /\ pc = "failed"
    /\ idx >= 1
    /\ astepCalls = SubSeq(tasks, 1, idx)
    /\ Len(returned) = idx - 1
    /\ stdout = returned
    /\ outstanding = 0
    /\ disconnectCalls = 0
    /\ conn = "open"

C4_Witness ==
  /\ failedAt = "astep"
  /\ pc = "failed"
  /\ Len(tasks) = 3
  /\ idx = 2

C6_PrintsBetweenConnectAndDisconnect ==
  [][/\ stdout' # stdout =>
          conn = "open" /\ connectCalls = 1 /\ disconnectCalls = 0
     /\ pc' = "done" => connectCalls' = 1 /\ disconnectCalls' = 1]_vars

C6_Witness ==
  /\ pc = "done"
  /\ tasks = <<"find all cars in image X">>
  /\ stdout = <<"1 car found">>
  /\ connectCalls = 1
  /\ disconnectCalls = 1

\* C7 as stated: once the configuration is built, every one of the four
\* secrets that is absent from the environment is a key of the record,
\* mapped to the absent value, and the toolkit got the record unchanged.
C7_AllFourSecretsInRecord ==
  pc # "config" =>
    /\ \A n \in SecretNames :
         environ[n] = None =>
           n \in DOMAIN ServerEntry.env /\ ServerEntry.env[n] = None
    /\ config_dict = mcp_config

\* C7 amended: once the configuration is built, an absent ACI_API_KEY is
\* still a key of the record's env mapping, mapped to the absent value (no
\* default), the toolkit got the record unchanged, and the only failures of
\* a run are failures of collaborator calls.
C7_AbsentAciKeyPassedThrough ==
  pc # "config" =>
    /\ "ACI_API_KEY" \in DOMAIN ServerEntry.env
    /\ ServerEntry.env["ACI_API_KEY"] = environ["ACI_API_KEY"]
    /\ environ["ACI_API_KEY"] = None => ServerEntry.env["ACI_API_KEY"] = None
    /\ config_dict = mcp_config
    /\ pc = "failed" => failedAt \in {"connect", "agent", "astep", "disconnect"}

C7_Witness ==
  /\ pc = "connect"
  /\ environ["ACI_API_KEY"] = None
  /\ ServerEntry.env["ACI_API_KEY"] = None
  /\ config_dict = mcp_config

\* C8: once the set-up cells have run, all four named secrets have been
\* read from the environment, and the linked account in the launch
\* arguments is the LINKED_ACCOUNT_OWNER_ID that was read.
C8_FourSecretsReadLinkedAccountFromEnv ==
  pc = "loop" =>
    /\ getenvCalls = SecretNames
    /\ ServerEntry.args[4] = environ["LINKED_ACCOUNT_OWNER_ID"]

\* C9: at most one agent invocation is outstanding, and a call is started
\* only when every earlier call has returned.
C9_StrictlySequential ==
  /\ outstanding <= 1
  /\ Len(astepCalls) <= Len(returned) + 1
  /\ outstanding = 1 => Len(returned) = Len(astepCalls) - 1

C9_Witness ==
  /\ outstanding = 1
  /\ Len(astepCalls) = 2
  /\ Len(returned) = 1

\* C10: if no call fails, the run eventually has consumed every task and
\* closed the connection; the loop never goes back to an earlier task and
\* the connection is never opened a second time.
C10_TerminatesNoRestart ==
  /\ <>(pc = "failed") \/ <>(pc = "done" /\ idx = Len(tasks) /\ conn = "closed")
  /\ [][/\ idx' >= idx
        /\ Len(astepCalls') >= Len(astepCalls)
        /\ connectCalls' <= 1
        /\ conn = "closed" => conn' = "closed"]_vars

C10_Witness ==
  /\ pc = "done"
  /\ conn = "closed"
  /\ idx = Len(tasks)
  /\ idx = 3
====
